---------------------------- MODULE Spec2Model ----------------------------
(***************************************************************************)
(* Model of pkg/job_manager: one Job supervising one OS process, its       *)
(* append-only Log, the LogReader cursors, and the goroutines StartJob     *)
(* launches (_captureOutput, _monitorCompletion), together with the        *)
(* client goroutines that call Stop, GetStatus and ReadNextLine.           *)
(*                                                                         *)
(* Granularity: a step is one lock acquisition, one system call, or one    *)
(* critical section executed while a lock is held.  The process emits      *)
(* newline-terminated lines only.                                          *)
(***************************************************************************)
EXTENDS Naturals, Integers, Sequences, FiniteSets, TLC

\* ----- bounds of the model -----
MaxLines == 2        \* lines the process may emit in total (stdout + stderr)
NumStoppers == 2     \* goroutines that each call job.Stop() once
NumGetters == 1      \* goroutines that call job.GetStatus() repeatedly
NumReaders == 1      \* cursors obtained from job.NewLogReader()
NumAppenders == 2    \* tasks that call log.AppendLine concurrently
MaxAppends == 2      \* AppendLine calls made by each such task
NumRegistrars == 2   \* goroutines that each register one job in the store
NumLookups == 1      \* goroutines that call GetJob repeatedly
NumCollectors == 1   \* goroutines that each call job.ReadAllLines() once
NumFollowers == 2    \* further cursors, read by blocking calls only

Stoppers == 1..NumStoppers
Getters == 1..NumGetters
Readers == 1..NumReaders
Followers == (NumReaders + 1)..(NumReaders + NumFollowers)
Cursors == Readers \cup Followers
Appenders == 1..NumAppenders
Registrars == 1..NumRegistrars
Collectors == 1..NumCollectors
Lookups == 1..NumLookups
\* Job identifiers: one more than can be registered, so that some
\* identifier is always unknown to the store.
JobIds == 1..(NumRegistrars + 1)

\* ----- JobStatus (job_manager.go:17-22) -----
StatusRunning == "running"
StatusCompleted == "completed"
StatusFailed == "failed"
StatusTerminated == "terminated"
NoJob == "nojob"     \* no Job value has been constructed yet

JobStatus == {StatusRunning, StatusCompleted, StatusFailed, StatusTerminated}
Terminal == {StatusCompleted, StatusFailed, StatusTerminated}

None == 0            \* "no goroutine" as holder of job.Mutex
NoEntry == 0         \* the map has no entry under the key
NoId == 0            \* no identifier
MonitorId == 100     \* holder ids: stoppers are s, getters 10 + g
GetterId(g) == 10 + g

VARIABLES
    startPc,     \* position of the caller inside StartJob
    status,      \* job.Status
    jobMutex,    \* job.Mutex: id of the goroutine holding the write lock
    proc,        \* OS process: "unstarted", "running", "exited"
    exitErr,     \* TRUE when the process exited non-zero or by a signal
    exitAfterSignal, \* history: an interrupt had been delivered at the exit
    waited,      \* Process.Wait has reaped the process (os.Process is done)
    stdoutClosed, \* the parent's read end of the stdout pipe is closed
    stderrClosed, \* the parent's read end of the stderr pipe is closed
    signals,     \* number of interrupts delivered by Process.Signal
    nextLine,    \* next line number the process will emit
    emittedOut,  \* history: lines the process wrote to stdout, in order
    emittedErr,  \* history: lines the process wrote to stderr, in order
    stdoutPipe,  \* lines in the kernel pipe of stdout, not yet read
    stderrPipe,  \* lines in the kernel pipe of stderr, not yet read
    stdoutBuf,   \* lines inside the bufio.Reader of stdout
    stderrBuf,   \* lines inside the bufio.Reader of stderr
    log,         \* job.Log.Lines
    logMutex,    \* job.Log.Mutex: [readers, writerWaiting, readerSem]
    capPc,       \* position of _captureOutput
    capStream,   \* the stream _captureOutput is reading: "stdout"/"stderr"
    capLine,     \* line _captureOutput is about to append
    monPc,       \* position of _monitorCompletion
    monErr,      \* err returned by Cmd.Wait inside _monitorCompletion
    stopPc,      \* per stopper: position inside Stop
    stopRes,     \* per stopper: what Stop returned
    stopCtx,     \* per stopper: history, what held when Stop was called
    gsPc,        \* per getter: position inside GetStatus
    gsRes,       \* per getter: what the last GetStatus returned
    rdPc,        \* per reader: position inside ReadNextLine
    rdPos,       \* per reader: LogReader.CurrentPosition
    rdBlocking,  \* per reader: the blocking argument of the current call
    rdRes,       \* per reader: what the last ReadNextLine returned
    rdSeq,       \* per reader: history, the lines its reads returned
    rdCancelled, \* per reader: the stream that reads it has disconnected
    logWriter,   \* the task that holds log.Mutex for writing, or None
    apPc,        \* per appender: position in its AppendLine call
    apDone,      \* per appender: the lines it has appended
    apSnap,      \* per appender: log.Lines as its append read it
    jobs,        \* jobStore.jobs: per identifier, the job stored or NoEntry
    jobsMutex,   \* jobStore.jobsMutex: [readers, writer, readerSem]; the writer holds
                 \* it or is
                 \* announced in Lock()
    regPc,       \* per registrar: position in the client's StartJob
    regId,       \* per registrar: the identifier StartJob returned
    lkPc,        \* per lookup caller: position in GetJob
    lkId,        \* per lookup caller: the identifier looked up
    lkRes,       \* per lookup caller: what the last GetJob returned
    raPc,        \* per ReadAllLines caller: position in ReadAllLines
    raPos,       \* per ReadAllLines caller: CurrentPosition of its cursor
    raLines,     \* per ReadAllLines caller: the lines collected
    raStart      \* per ReadAllLines caller: history, len(Lines) at the call

jobVars == <<startPc, status, jobMutex>>
procVars == <<proc, exitErr, exitAfterSignal,
              waited, stdoutClosed, stderrClosed, signals, nextLine,
              emittedOut, emittedErr, stdoutPipe, stderrPipe>>
capVars == <<stdoutBuf, stderrBuf, capPc, capStream, capLine>>
logVars == <<log, logMutex>>
monVars == <<monPc, monErr>>
stopVars == <<stopPc, stopRes, stopCtx>>
gsVars == <<gsPc, gsRes>>
rdVars == <<rdPc, rdPos, rdBlocking, rdRes, rdSeq, rdCancelled>>

apVars == <<logWriter, apPc, apDone, apSnap>>
storeVars == <<jobs, jobsMutex, regPc, regId, lkPc, lkId, lkRes>>
raVars == <<raPc, raPos, raLines, raStart>>
othersVars == <<jobVars, procVars, capVars, logVars, monVars, stopVars,
                gsVars, rdVars, apVars, raVars>>
vars == <<jobVars, procVars, capVars, logVars, monVars, stopVars, gsVars,
          rdVars, apVars, storeVars, raVars>>

\* ----- results -----
NoResult == "none"
StopOk == "ok"                      \* Stop returned nil
ErrNotRunning == "notrunning"       \* job_manager.go:155
ErrSignal == "signalerror"          \* the error of Process.Signal, line 159

NoLine == 0                         \* the "" ReadNextLine returns with false

Init ==
    /\ startPc = "init"
    /\ status = NoJob
    /\ jobMutex = None
    /\ proc = "unstarted"
    /\ exitErr = FALSE
    /\ exitAfterSignal = FALSE
    /\ waited = FALSE
    /\ stdoutClosed = FALSE
    /\ stderrClosed = FALSE
    /\ signals = 0
    /\ nextLine = 1
    /\ emittedOut = <<>>
    /\ emittedErr = <<>>
    /\ stdoutPipe = <<>>
    /\ stderrPipe = <<>>
    /\ stdoutBuf = <<>>
    /\ stderrBuf = <<>>
    /\ log = <<>>
    /\ logMutex = [readers |-> 0, writerWaiting |-> FALSE, readerSem |-> 0]
    /\ capPc = "off"
    /\ capStream = "stdout"
    /\ capLine = NoLine
    /\ monPc = "off"
    /\ monErr = FALSE
    /\ stopPc = [s \in Stoppers |-> "idle"]
    /\ stopRes = [s \in Stoppers |-> NoResult]
    /\ stopCtx = [s \in Stoppers |-> [exitedNaturally |-> FALSE]]
    /\ gsPc = [g \in Getters |-> "idle"]
    /\ gsRes = [g \in Getters |-> NoResult]
    /\ rdPc = [r \in Cursors |-> "nocursor"]
    /\ rdPos = [r \in Cursors |-> 0]
    /\ rdBlocking = [r \in Cursors |-> FALSE]
    /\ rdRes = [r \in Cursors |-> [line |-> NoLine, ok |-> FALSE]]
    /\ rdSeq = [r \in Cursors |-> <<>>]
    /\ rdCancelled = [r \in Cursors |-> FALSE]
    /\ logWriter = None
    /\ apPc = [a \in Appenders |-> "idle"]
    /\ apDone = [a \in Appenders |-> 0]
    /\ apSnap = [a \in Appenders |-> <<>>]
    /\ jobs = [id \in JobIds |-> NoEntry]
    /\ jobsMutex = [readers |-> 0, writer |-> None, readerSem |-> 0]
    /\ regPc = [p \in Registrars |-> "idle"]
    /\ regId = [p \in Registrars |-> NoId]
    /\ lkPc = [l \in Lookups |-> "idle"]
    /\ lkId = [l \in Lookups |-> NoId]
    /\ lkRes = [l \in Lookups |-> [job |-> NoEntry, notFound |-> FALSE]]
    /\ raPc = [c \in Collectors |-> "idle"]
    /\ raPos = [c \in Collectors |-> 0]
    /\ raLines = [c \in Collectors |-> <<>>]
    /\ raStart = [c \in Collectors |-> 0]

\* =========================== StartJob ===================================

\* cmd.StdoutPipe() or cmd.StderrPipe() fails: return nil, err (lines 87-94).
StartJobPipeError ==
    /\ startPc = "init"
    /\ startPc' = "failed"
    /\ UNCHANGED <<status, jobMutex, procVars, capVars, logVars, monVars,
                   stopVars, gsVars, rdVars, apVars, storeVars, raVars>>

\* The Job value is built with Status Running and an empty Log, and
\* _captureOutput is launched (lines 96-102).
StartJobCreate ==
    /\ startPc = "init"
    /\ startPc' = "created"
    /\ status' = StatusRunning
    /\ capPc' = "check"
    /\ UNCHANGED <<jobMutex, procVars, stdoutBuf, stderrBuf, capStream,
                   capLine, logVars, monVars, stopVars, gsVars, rdVars,
                   apVars, storeVars, raVars>>

\* cmd.Start() succeeds (line 104).
CmdStartOk ==
    /\ startPc = "created"
    /\ startPc' = "started"
    /\ proc' = "running"
    /\ UNCHANGED <<status, jobMutex, exitErr, exitAfterSignal,
                   waited, stdoutClosed, stderrClosed, signals,
                   nextLine, emittedOut, emittedErr, stdoutPipe, stderrPipe,
                   capVars, logVars, monVars, stopVars, gsVars, rdVars,
                   apVars, storeVars, raVars>>

\* cmd.Start() fails (line 104): exec closes the child's ends of the
\* pipes and then the parent's read ends, stdout first.
CmdStartFail ==
    /\ startPc = "created"
    /\ startPc' = "failing"
    /\ stdoutClosed' = TRUE
    /\ UNCHANGED <<status, jobMutex, proc, exitErr, exitAfterSignal,
                   waited, stderrClosed, signals,
                   nextLine, emittedOut, emittedErr, stdoutPipe, stderrPipe,
                   capVars, logVars, monVars, stopVars, gsVars, rdVars,
                   apVars, storeVars, raVars>>

\* ... then the read end of stderr is closed and StartJob returns nil, err
\* (lines 104-106); the capture goroutine is left behind.
CmdStartFailReturn ==
    /\ startPc = "failing"
    /\ startPc' = "failed"
    /\ stderrClosed' = TRUE
    /\ UNCHANGED <<status, jobMutex, proc, exitErr, exitAfterSignal,
                   waited, stdoutClosed, signals,
                   nextLine, emittedOut, emittedErr, stdoutPipe, stderrPipe,
                   capVars, logVars, monVars, stopVars, gsVars, rdVars,
                   apVars, storeVars, raVars>>

\* go job._monitorCompletion(); return job, nil (lines 108-110).
StartJobReturn ==
    /\ startPc = "started"
    /\ startPc' = "returned"
    /\ monPc' = "wait"
    /\ UNCHANGED <<status, jobMutex, procVars, capVars, logVars, monErr,
                   stopVars, gsVars, rdVars, apVars, storeVars, raVars>>

\* The caller holds the *Job only after StartJob returned it.
JobReturned == startPc = "returned"

\* =========================== the OS process =============================

\* The process writes one line to its stdout or its stderr.
ProcEmit(stream) ==
    /\ proc = "running"
    /\ nextLine <= MaxLines
    /\ nextLine' = nextLine + 1
    /\ IF stream = "stdout"
         THEN /\ stdoutPipe' = Append(stdoutPipe, nextLine)
              /\ emittedOut' = Append(emittedOut, nextLine)
              /\ UNCHANGED <<stderrPipe, emittedErr>>
         ELSE /\ stderrPipe' = Append(stderrPipe, nextLine)
              /\ emittedErr' = Append(emittedErr, nextLine)
              /\ UNCHANGED <<stdoutPipe, emittedOut>>
    /\ UNCHANGED <<jobVars, proc, exitErr, exitAfterSignal,
                   waited, stdoutClosed, stderrClosed, signals,
                   capVars, logVars, monVars, stopVars, gsVars, rdVars,
                   apVars, storeVars, raVars>>

\* The process exits: cleanly (err = FALSE) or with a non-zero code or by a
\* signal (err = TRUE).  Death by a signal needs a signal to have been sent,
\* but a process may also exit non-zero on its own, so err is free.
ProcExit(err) ==
    /\ proc = "running"
    /\ proc' = "exited"
    /\ exitErr' = err
    /\ exitAfterSignal' = (signals > 0)
    /\ UNCHANGED <<jobVars, waited, stdoutClosed, stderrClosed, signals,
                   nextLine,
                   emittedOut, emittedErr, stdoutPipe, stderrPipe,
                   capVars, logVars, monVars, stopVars, gsVars, rdVars,
                   apVars, storeVars, raVars>>


\* =========================== _captureOutput =============================

\* Lines 125-130: read job.Status under the read lock; leave the loop when
\* the job is no longer running, otherwise go on to read stdout.
CapCheck ==
    /\ capPc = "check"
    /\ jobMutex = None
    /\ IF status # StatusRunning
         THEN capPc' = "done"
         ELSE capPc' = "read"
    /\ capStream' = "stdout"
    /\ UNCHANGED <<jobVars, procVars, stdoutBuf, stderrBuf, capLine,
                   logVars, monVars, stopVars, gsVars, rdVars, apVars,
                   storeVars, raVars>>

\* After readNextLine(stdoutBuf) comes readNextLine(stderrBuf), after that
\* the next iteration of the loop (lines 132-134).
CapAfter(stream) == IF stream = "stdout" THEN "read" ELSE "check"
CapNextStream(stream) == IF stream = "stdout" THEN "stderr" ELSE "stdout"

\* buf.ReadBytes('\n') (line 118) on the reader made of the bufio buffer
\* `buf` over the pipe `pipe`.  Result: what happened, the line returned,
\* and the new contents of buffer and pipe.
\*   "line":  a complete line is returned with err == nil;
\*   "fail":  no bytes and err is io.EOF (process gone, pipe drained) or
\*            the error of reading a closed file: nothing is appended;
\*   "block": no data yet and the write end is still open.
ReadBytes(buf, pipe, closed, writerGone) ==
    IF buf # <<>>
      THEN [kind |-> "line", line |-> Head(buf), buf |-> Tail(buf),
            pipe |-> pipe]
    ELSE IF closed
      THEN [kind |-> "fail", line |-> NoLine, buf |-> buf, pipe |-> pipe]
    ELSE IF pipe # <<>>
      THEN [kind |-> "line", line |-> Head(pipe), buf |-> Tail(pipe),
            pipe |-> <<>>]
    ELSE IF writerGone
      THEN [kind |-> "fail", line |-> NoLine, buf |-> buf, pipe |-> pipe]
    ELSE [kind |-> "block", line |-> NoLine, buf |-> buf, pipe |-> pipe]

\* No process holds the write ends of the pipes: the process has exited,
\* or cmd.Start() failed and exec closed the child's ends.
WriterGone == proc = "exited" \/ startPc \in {"failing", "failed"}

\* readNextLine(buf) up to the call of AppendLine (lines 117-120).
CapRead ==
    /\ capPc = "read"
    /\ LET isOut == capStream = "stdout"
           r == ReadBytes(IF isOut THEN stdoutBuf ELSE stderrBuf,
                          IF isOut THEN stdoutPipe ELSE stderrPipe,
                          IF isOut THEN stdoutClosed ELSE stderrClosed,
                          WriterGone)
       IN /\ r.kind # "block"
          /\ IF isOut
               THEN /\ stdoutBuf' = r.buf
                    /\ stdoutPipe' = r.pipe
                    /\ UNCHANGED <<stderrBuf, stderrPipe>>
               ELSE /\ stderrBuf' = r.buf
                    /\ stderrPipe' = r.pipe
                    /\ UNCHANGED <<stdoutBuf, stdoutPipe>>
          /\ IF r.kind = "line"
               THEN /\ capLine' = r.line
                    /\ capPc' = "append"
                    /\ UNCHANGED capStream
               ELSE /\ capLine' = NoLine
                    /\ capPc' = CapAfter(capStream)
                    /\ capStream' = CapNextStream(capStream)
    /\ UNCHANGED <<jobVars, proc, exitErr, exitAfterSignal,
                   waited, stdoutClosed, stderrClosed, signals,
                   nextLine, emittedOut, emittedErr, logVars, monVars,
                   stopVars, gsVars, rdVars, apVars, storeVars, raVars>>

\* ----- Log.AppendLine (lines 36-40) -----

\* sync.RWMutex as the calls below use it.  Lock() first takes the inner
\* mutex that orders the writers, then announces the writer to the readers
\* and waits until the readers that hold the lock have left; a writer that
\* only waits for the inner mutex is not announced and keeps no reader
\* out.  RLock() is granted at once unless a writer is announced, and
\* blocks otherwise on the readers' semaphore.  Unlock() first releases
\* that semaphore once for every reader blocked in RLock() and only then
\* frees the inner mutex for the next writer; a release is a permit, not a
\* hand-over, so a permit is taken by whichever blocked reader runs first,
\* a reader that blocked later included.  The announced writer waits for
\* the readers that held the lock or had a permit due when it announced
\* itself: the lock is its own once no reader holds it and no permit is
\* left.
\* Taking the inner mutex and announcing are one step here: a writer that
\* holds the inner mutex unannounced differs from one still waiting for it
\* only in keeping other writers out, which it does from the announcement
\* on all the same.

\* Variant of WriterPending: Lock() excludes nobody.
WriterPending_Never == FALSE

\* A writer holds log.Mutex, or holds its inner mutex and is announced
\* (line 37): RLock() blocks, and so does the Lock() of another writer.
WriterPending == logMutex.writerWaiting \/ logWriter # None

\* The announced writer's Lock() (line 37) returns: the readers have left
\* and no permit released to a blocked reader is outstanding.
LogLockFree == logMutex.readers = 0 /\ logMutex.readerSem = 0

\* The cursors blocked in RLock() (lines 54 and 64).
BlockedReaders == {r \in DOMAIN rdPc : rdPc[r] = "rwait"}

\* The ReadAllLines callers blocked in RLock() (line 54).
BlockedCollectors == {c \in DOMAIN raPc : raPc[c] = "rwait"}

\* log.Mutex.Unlock() (line 38): one permit is released for every reader
\* blocked in RLock(), before any waiting writer can announce itself.
LogMutexUnlock ==
    logMutex' = [readers |-> logMutex.readers,
                 writerWaiting |-> FALSE,
                 readerSem |-> logMutex.readerSem
                                 + Cardinality(BlockedReaders)
                                 + Cardinality(BlockedCollectors)]

\* log.Mutex.Lock() takes the inner mutex, free when no other writer is
\* pending, and announces the writer: from now on RLock() blocks.
AppendLineLock ==
    /\ capPc = "append"
    /\ ~WriterPending
    /\ capPc' = "lock"
    /\ logMutex' = [logMutex EXCEPT !.writerWaiting = TRUE]
    /\ UNCHANGED <<jobVars, procVars, stdoutBuf, stderrBuf, capStream,
                   capLine, log, monVars, stopVars, gsVars, rdVars, apVars,
                   storeVars, raVars>>

\* Variant of the append: the new line goes to the front.
AppendTo_Front(lines, line) == <<line>> \o lines

\* log.Lines = append(log.Lines, line)
AppendTo(lines, line) == Append(lines, line)

\* The readers have left: the lock is taken, the line is appended and the
\* lock is released (deferred Unlock).
AppendLine ==
    /\ capPc = "lock"
    /\ LogLockFree
    /\ log' = AppendTo(log, capLine)
    /\ LogMutexUnlock
    /\ capPc' = CapAfter(capStream)
    /\ capStream' = CapNextStream(capStream)
    /\ capLine' = NoLine
    /\ UNCHANGED <<jobVars, procVars, stdoutBuf, stderrBuf, monVars,
                   stopVars, gsVars, rdVars, apVars, storeVars, raVars>>

\* ----- Log.AppendLine called by concurrent tasks -----

\* The k-th line that the task a appends.
AppenderLine(a, k) == 10 * a + k

\* The task a calls log.AppendLine(line) and so log.Mutex.Lock() (lines
\* 36-37); the log exists once NewLog() has run in StartJob.
AppendLineCall(a) ==
    /\ status # NoJob
    /\ apPc[a] = "idle"
    /\ apDone[a] < MaxAppends
    /\ apPc' = [apPc EXCEPT ![a] = "lock"]
    /\ UNCHANGED <<jobVars, procVars, capVars, logVars, monVars, stopVars,
                   gsVars, rdVars, logWriter, apDone, apSnap, storeVars,
                   raVars>>

\* Lock() in the task a takes the inner mutex, free when no other writer
\* is pending, and announces the writer (line 37).
AppendLineAnnounce(a) ==
    /\ apPc[a] = "lock"
    /\ ~WriterPending
    /\ logMutex' = [logMutex EXCEPT !.writerWaiting = TRUE]
    /\ apPc' = [apPc EXCEPT ![a] = "announced"]
    /\ UNCHANGED <<jobVars, procVars, capVars, log, monVars, stopVars,
                   gsVars, rdVars, logWriter, apDone, apSnap, storeVars,
                   raVars>>

\* Lock() returns in the task a (line 37): the readers have left.
AppendLineAcquire(a) ==
    /\ apPc[a] = "announced"
    /\ LogLockFree
    /\ logWriter' = a
    /\ logMutex' = [logMutex EXCEPT !.writerWaiting = FALSE]
    /\ apPc' = [apPc EXCEPT ![a] = "locked"]
    /\ UNCHANGED <<jobVars, procVars, capVars, log, monVars, stopVars,
                   gsVars, rdVars, apDone, apSnap, storeVars, raVars>>

\* append(log.Lines, line) reads the slice (line 39, right-hand side).
AppendLineRead(a) ==
    /\ apPc[a] = "locked"
    /\ apSnap' = [apSnap EXCEPT ![a] = log]
    /\ apPc' = [apPc EXCEPT ![a] = "read"]
    /\ UNCHANGED <<jobVars, procVars, capVars, logVars, monVars, stopVars,
                   gsVars, rdVars, logWriter, apDone, storeVars, raVars>>

\* The result is stored in log.Lines (line 39).
AppendLineStore(a) ==
    /\ apPc[a] = "read"
    /\ log' = AppendTo(apSnap[a], AppenderLine(a, apDone[a] + 1))
    /\ apDone' = [apDone EXCEPT ![a] = @ + 1]
    /\ apSnap' = [apSnap EXCEPT ![a] = <<>>]
    /\ apPc' = [apPc EXCEPT ![a] = "unlock"]
    /\ UNCHANGED <<jobVars, procVars, capVars, logMutex, monVars, stopVars,
                   gsVars, rdVars, logWriter, storeVars, raVars>>

\* The deferred log.Mutex.Unlock() runs and AppendLine returns (line 38).
AppendLineUnlock(a) ==
    /\ apPc[a] = "unlock"
    /\ logWriter' = None
    /\ LogMutexUnlock
    /\ apPc' = [apPc EXCEPT ![a] = "idle"]
    /\ UNCHANGED <<jobVars, procVars, capVars, log, monVars, stopVars,
                   gsVars, rdVars, apDone, apSnap, storeVars, raVars>>

\* =========================== _monitorCompletion =========================

\* job.Cmd.Wait() (line 138): first the process is reaped ...
MonWait ==
    /\ monPc = "wait"
    /\ proc = "exited"
    /\ waited' = TRUE
    /\ monErr' = exitErr
    /\ monPc' = "close"
    /\ UNCHANGED <<jobVars, proc, exitErr, exitAfterSignal,
                   stdoutClosed, stderrClosed, signals, nextLine,
                   emittedOut, emittedErr, stdoutPipe, stderrPipe,
                   capVars, logVars, stopVars, gsVars, rdVars, apVars,
                   storeVars, raVars>>

\* ... then Wait closes the parent's read ends of the pipes, one after
\* the other in the order StdoutPipe and StderrPipe made them: stdout ...
MonCloseStdout ==
    /\ monPc = "close"
    /\ stdoutClosed' = TRUE
    /\ monPc' = "close2"
    /\ UNCHANGED <<jobVars, proc, exitErr, exitAfterSignal,
                   waited, stderrClosed, signals, nextLine,
                   emittedOut, emittedErr, stdoutPipe, stderrPipe,
                   capVars, logVars, monErr, stopVars, gsVars, rdVars,
                   apVars, storeVars, raVars>>

\* ... then stderr, and Wait returns.
MonCloseStderr ==
    /\ monPc = "close2"
    /\ stderrClosed' = TRUE
    /\ monPc' = "lock"
    /\ UNCHANGED <<jobVars, proc, exitErr, exitAfterSignal,
                   waited, stdoutClosed, signals, nextLine,
                   emittedOut, emittedErr, stdoutPipe, stderrPipe,
                   capVars, logVars, monErr, stopVars, gsVars, rdVars,
                   apVars, storeVars, raVars>>

\* job.Mutex.Lock() (line 140)
MonLock ==
    /\ monPc = "lock"
    /\ jobMutex = None
    /\ jobMutex' = MonitorId
    /\ monPc' = "locked"
    /\ UNCHANGED <<startPc, status, procVars, capVars, logVars, monErr,
                   stopVars, gsVars, rdVars, apVars, storeVars, raVars>>

\* Variant of MonitorStatus: the two branches exchanged.
MonitorStatus_Swapped(cur, err) ==
    IF err THEN StatusCompleted ELSE StatusFailed

\* Lines 143-147: the status written for the error of Wait; the status the
\* job has at that moment (cur) is not consulted.
MonitorStatus(cur, err) ==
    IF err THEN StatusFailed ELSE StatusCompleted

\* The status is written and the deferred Unlock runs.
MonWrite ==
    /\ monPc = "locked"
    /\ status' = MonitorStatus(status, monErr)
    /\ jobMutex' = None
    /\ monPc' = "done"
    /\ UNCHANGED <<startPc, procVars, capVars, logVars, monErr,
                   stopVars, gsVars, rdVars, apVars, storeVars, raVars>>

\* =========================== Job.Stop ===================================

SomeStopOk == \E t \in Stoppers : stopRes[t] = StopOk
SomeStopBegun == \E t \in Stoppers : stopPc[t] # "idle"

\* job.Stop() is called: it asks for job.Mutex.Lock() (lines 150-151).
\* The history records whether the process had by then exited on its own,
\* that is, before any interrupt was sent to it.
StopCall(s) ==
    /\ JobReturned
    /\ stopPc[s] = "idle"
    /\ stopPc' = [stopPc EXCEPT ![s] = "lock"]
    /\ stopCtx' = [stopCtx EXCEPT ![s] =
                      [exitedNaturally |->
                          proc = "exited" /\ ~exitAfterSignal]]
    /\ UNCHANGED <<jobVars, procVars, capVars, logVars, monVars,
                   stopRes, gsVars, rdVars, apVars, storeVars, raVars>>

\* job.Mutex.Lock() returns (line 151).
StopLock(s) ==
    /\ stopPc[s] = "lock"
    /\ jobMutex = None
    /\ jobMutex' = s
    /\ stopPc' = [stopPc EXCEPT ![s] = "locked"]
    /\ UNCHANGED <<startPc, status, procVars, capVars, logVars, monVars,
                   stopRes, stopCtx, gsVars, rdVars, apVars, storeVars,
                   raVars>>

\* Variant of StopResult: line 162 is missing, a stopped job stays Running.
StopResult_KeepsRunning(cur, done) ==
    IF cur # StatusRunning
      THEN [err |-> ErrNotRunning, status |-> cur, signalled |-> FALSE]
    ELSE IF done
      THEN [err |-> ErrSignal, status |-> cur, signalled |-> FALSE]
    ELSE [err |-> StopOk, status |-> cur, signalled |-> TRUE]

\* Variant of StopResult: the interrupt is sent before the status is
\* looked at.
StopResult_SignalsFirst(cur, done) ==
    IF cur # StatusRunning
      THEN [err |-> ErrNotRunning, status |-> cur, signalled |-> ~done]
    ELSE IF done
      THEN [err |-> ErrSignal, status |-> cur, signalled |-> FALSE]
    ELSE [err |-> StopOk, status |-> StatusTerminated, signalled |-> TRUE]

\* Variant of StopResult: the status is set to Terminated before the
\* interrupt is sent.
StopResult_TerminatesFirst(cur, done) ==
    IF cur # StatusRunning
      THEN [err |-> ErrNotRunning, status |-> cur, signalled |-> FALSE]
    ELSE IF done
      THEN [err |-> ErrSignal, status |-> StatusTerminated,
            signalled |-> FALSE]
    ELSE [err |-> StopOk, status |-> StatusTerminated, signalled |-> TRUE]

\* Variant of StopResult: the test of line 154 is missing.
StopResult_NoStatusCheck(cur, done) ==
    IF done
      THEN [err |-> ErrSignal, status |-> cur, signalled |-> FALSE]
      ELSE [err |-> StopOk, status |-> StatusTerminated, signalled |-> TRUE]

\* Lines 154-163 for a job whose status is cur and whose os.Process is
\* (done = TRUE) or is not yet reaped: the value returned, the status
\* left behind and whether the interrupt was delivered.  Process.Signal
\* fails exactly when the process has already been waited for.
StopResult(cur, done) ==
    IF cur # StatusRunning
      THEN [err |-> ErrNotRunning, status |-> cur, signalled |-> FALSE]
    ELSE IF done
      THEN [err |-> ErrSignal, status |-> cur, signalled |-> FALSE]
    ELSE [err |-> StopOk, status |-> StatusTerminated, signalled |-> TRUE]

\* Variant of StopBody: Stop returns without releasing job.Mutex.
StopBody_NoUnlock(s) ==
    /\ stopPc[s] = "locked"
    /\ LET r == StopResult(status, waited)
       IN /\ stopRes' = [stopRes EXCEPT ![s] = r.err]
          /\ status' = r.status
          /\ signals' = IF r.signalled THEN signals + 1 ELSE signals
    /\ stopPc' = [stopPc EXCEPT ![s] = "done"]
    /\ UNCHANGED <<startPc, jobMutex, proc, exitErr, exitAfterSignal,
                   waited, stdoutClosed, stderrClosed, nextLine,
                   emittedOut, emittedErr, stdoutPipe, stderrPipe,
                   capVars, logVars, monVars, stopCtx, gsVars, rdVars,
                   apVars, storeVars, raVars>>

\* The body of Stop under the lock, and the deferred Unlock.
StopBody(s) ==
    /\ stopPc[s] = "locked"
    /\ LET r == StopResult(status, waited)
       IN /\ stopRes' = [stopRes EXCEPT ![s] = r.err]
          /\ status' = r.status
          /\ signals' = IF r.signalled THEN signals + 1 ELSE signals
    /\ jobMutex' = None
    /\ stopPc' = [stopPc EXCEPT ![s] = "done"]
    /\ UNCHANGED <<startPc, proc, exitErr, exitAfterSignal,
                   waited, stdoutClosed, stderrClosed, nextLine,
                   emittedOut, emittedErr, stdoutPipe, stderrPipe,
                   capVars, logVars, monVars, stopCtx, gsVars, rdVars,
                   apVars, storeVars, raVars>>

\* =========================== Job.GetStatus ==============================

\* job.GetStatus() is called: it asks for job.Mutex.Lock() (lines 166-167).
GetStatusCall(g) ==
    /\ JobReturned
    /\ gsPc[g] = "idle"
    /\ gsPc' = [gsPc EXCEPT ![g] = "lock"]
    /\ UNCHANGED <<jobVars, procVars, capVars, logVars, monVars,
                   stopVars, gsRes, rdVars, apVars, storeVars, raVars>>

\* job.Mutex.Lock() returns (line 167).
GetStatusLock(g) ==
    /\ gsPc[g] = "lock"
    /\ jobMutex = None
    /\ jobMutex' = GetterId(g)
    /\ gsPc' = [gsPc EXCEPT ![g] = "locked"]
    /\ UNCHANGED <<startPc, status, procVars, capVars, logVars, monVars,
                   stopVars, gsRes, rdVars, apVars, storeVars, raVars>>

\* return job.Status, then the deferred Unlock (lines 168-169)
GetStatus(g) ==
    /\ gsPc[g] = "locked"
    /\ gsRes' = [gsRes EXCEPT ![g] = status]
    /\ jobMutex' = None
    /\ gsPc' = [gsPc EXCEPT ![g] = "idle"]
    /\ UNCHANGED <<startPc, status, procVars, capVars, logVars, monVars,
                   stopVars, rdVars, apVars, storeVars, raVars>>

\* =========================== LogReader ==================================

\* Variant of NewLogReader: the cursor starts at the end of the log.
NewLogReader_AtEnd(r) ==
    /\ JobReturned
    /\ rdPc[r] = "nocursor"
    /\ rdPc' = [rdPc EXCEPT ![r] = "idle"]
    /\ rdPos' = [rdPos EXCEPT ![r] = Len(log)]
    /\ UNCHANGED <<jobVars, procVars, capVars, logVars, monVars, stopVars,
                   gsVars, rdBlocking, rdRes, rdSeq,
                   rdCancelled, apVars, storeVars, raVars>>

\* Job.NewLogReader (lines 172-177): a cursor at position 0.
NewLogReader(r) ==
    /\ JobReturned
    /\ rdPc[r] = "nocursor"
    /\ rdPc' = [rdPc EXCEPT ![r] = "idle"]
    /\ rdPos' = [rdPos EXCEPT ![r] = 0]
    /\ UNCHANGED <<jobVars, procVars, capVars, logVars, monVars, stopVars,
                   gsVars, rdBlocking, rdRes, rdSeq,
                   rdCancelled, apVars, storeVars, raVars>>

\* ReadNextLine(blocking) is called (line 49). A caller whose stream has
\* disconnected has left its loop (Send fails, main.go line 274) and calls
\* no more.
ReadNextLineCall(r, blocking) ==
    /\ rdPc[r] = "idle"
    /\ ~rdCancelled[r]
    /\ rdPc' = [rdPc EXCEPT ![r] = "rlock"]
    /\ rdBlocking' = [rdBlocking EXCEPT ![r] = blocking]
    /\ UNCHANGED <<jobVars, procVars, capVars, logVars, monVars, stopVars,
                   gsVars, rdPos, rdRes, rdSeq,
                   rdCancelled, apVars, storeVars, raVars>>

\* log.Mutex.RLock() (lines 54 and 64): granted at once unless a writer
\* is pending; then the reader blocks until that writer's Unlock().
ReadNextLineRLock(r) ==
    /\ rdPc[r] = "rlock"
    /\ IF WriterPending
         THEN /\ rdPc' = [rdPc EXCEPT ![r] = "rwait"]
              /\ UNCHANGED logMutex
         ELSE /\ rdPc' = [rdPc EXCEPT ![r] = "loop"]
              /\ logMutex' = [logMutex EXCEPT !.readers = @ + 1]
    /\ UNCHANGED <<jobVars, procVars, capVars, log, monVars, stopVars,
                   gsVars, rdPos, rdBlocking, rdRes, rdSeq,
                   rdCancelled, apVars, storeVars, raVars>>

\* RLock() returns in a reader that blocked (lines 54 and 64): it takes
\* one of the permits that an Unlock() released.
ReadNextLineRLockReturn(r) ==
    /\ rdPc[r] = "rwait"
    /\ logMutex.readerSem > 0
    /\ logMutex' = [logMutex EXCEPT !.readerSem = @ - 1,
                                    !.readers = @ + 1]
    /\ rdPc' = [rdPc EXCEPT ![r] = "loop"]
    /\ UNCHANGED <<jobVars, procVars, capVars, log, monVars, stopVars,
                   gsVars, rdPos, rdBlocking, rdRes, rdSeq,
                   rdCancelled, apVars, storeVars, raVars>>

\* Variant of LoopBreaks: the test compares with the index after the
\* cursor.
LoopBreaks_OffByOne(lines, pos, blocking) ==
    ~blocking \/ pos + 1 < Len(lines)

\* Variant of LoopBreaks: the loop is left at once in either mode.
LoopBreaks_Always(lines, pos, blocking) == TRUE

\* The condition that leaves the loop (line 58).
LoopBreaks(lines, pos, blocking) == ~blocking \/ pos < Len(lines)

\* Variant of ReadResult: the entry after the cursor is returned.
ReadResult_OffByOne(lines, pos) ==
    IF pos + 1 >= Len(lines)
      THEN [line |-> NoLine, ok |-> FALSE, pos |-> pos]
      ELSE [line |-> lines[pos + 2], ok |-> TRUE, pos |-> pos + 1]

\* Variant of ReadResult: a failed read moves the cursor too.
ReadResult_AlwaysAdvances(lines, pos) ==
    IF pos >= Len(lines)
      THEN [line |-> NoLine, ok |-> FALSE, pos |-> pos + 1]
      ELSE [line |-> lines[pos + 1], ok |-> TRUE, pos |-> pos + 1]

\* Lines 67-73: the value returned and the new position, for a cursor at
\* pos (0-based, as CurrentPosition) over lines.
ReadResult(lines, pos) ==
    IF pos >= Len(lines)
      THEN [line |-> NoLine, ok |-> FALSE, pos |-> pos]
      ELSE [line |-> lines[pos + 1], ok |-> TRUE, pos |-> pos + 1]

\* The loop test succeeds: lines 67-73 run under the same read lock, the
\* call returns and the deferred RUnlock runs.
ReadNextLineReturn(r) ==
    /\ rdPc[r] = "loop"
    /\ LoopBreaks(log, rdPos[r], rdBlocking[r])
    /\ LET res == ReadResult(log, rdPos[r])
       IN /\ rdRes' = [rdRes EXCEPT ![r] = [line |-> res.line, ok |-> res.ok]]
          /\ rdPos' = [rdPos EXCEPT ![r] = res.pos]
          /\ rdSeq' = [rdSeq EXCEPT ![r] =
                          IF res.ok THEN Append(@, res.line) ELSE @]
    /\ logMutex' = [logMutex EXCEPT !.readers = @ - 1]
    /\ rdPc' = [rdPc EXCEPT ![r] = "idle"]
    /\ rdBlocking' = [rdBlocking EXCEPT ![r] = FALSE]
    /\ UNCHANGED <<jobVars, procVars, capVars, log, monVars, stopVars,
                   gsVars, rdCancelled, apVars, storeVars, raVars>>

\* Variant of ReadNextLineSleep: the reader sleeps holding the read lock.
ReadNextLineSleep_HoldsLock(r) ==
    /\ rdPc[r] = "loop"
    /\ ~LoopBreaks(log, rdPos[r], rdBlocking[r])
    /\ rdPc' = [rdPc EXCEPT ![r] = "sleep"]
    /\ UNCHANGED <<jobVars, procVars, capVars, logVars, monVars, stopVars,
                   gsVars, rdPos, rdBlocking, rdRes, rdSeq,
                   rdCancelled, apVars, storeVars, raVars>>

\* The loop test fails: RUnlock and time.Sleep (lines 62-63).
ReadNextLineSleep(r) ==
    /\ rdPc[r] = "loop"
    /\ ~LoopBreaks(log, rdPos[r], rdBlocking[r])
    /\ logMutex' = [logMutex EXCEPT !.readers = @ - 1]
    /\ rdPc' = [rdPc EXCEPT ![r] = "sleep"]
    /\ UNCHANGED <<jobVars, procVars, capVars, log, monVars, stopVars,
                   gsVars, rdPos, rdBlocking, rdRes, rdSeq,
                   rdCancelled, apVars, storeVars, raVars>>

\* The sleep is over; RLock is called again (line 64).
ReadNextLineWake(r) ==
    /\ rdPc[r] = "sleep"
    /\ rdPc' = [rdPc EXCEPT ![r] = "rlock"]
    /\ UNCHANGED <<jobVars, procVars, capVars, logVars, monVars, stopVars,
                   gsVars, rdPos, rdBlocking, rdRes, rdSeq,
                   rdCancelled, apVars, storeVars, raVars>>

\* server.SubscribeOutput (cmd/client/main.go, lines 266-278) reads the
\* cursor r in a loop of ReadNextLine(true); the client of the stream
\* disconnects. Nothing in the loop or in ReadNextLine looks at the stream's
\* context, so the step changes no state of the job or of the cursor.
Disconnect(r) ==
    /\ rdPc[r] # "nocursor"
    /\ ~rdCancelled[r]
    /\ rdCancelled' = [rdCancelled EXCEPT ![r] = TRUE]
    /\ UNCHANGED <<jobVars, procVars, capVars, logVars, monVars, stopVars,
                   gsVars, rdPc, rdPos, rdBlocking, rdRes, rdSeq, apVars,
                   storeVars, raVars>>

\* =========================== Job.ReadAllLines ===========================
\* Lines 179-190; server.GetOutput (cmd/client/main.go, lines 250-263)
\* returns the lines of ReadAllLines, concatenated.

\* job.ReadAllLines() is called: a cursor at position 0, no line yet
\* (lines 180-181), and the first ReadNextLine(false) asks for the read
\* lock (line 54).
ReadAllLinesCall(c) ==
    /\ JobReturned
    /\ raPc[c] = "idle"
    /\ raPc' = [raPc EXCEPT ![c] = "rlock"]
    /\ raPos' = [raPos EXCEPT ![c] = 0]
    /\ raLines' = [raLines EXCEPT ![c] = <<>>]
    /\ raStart' = [raStart EXCEPT ![c] = Len(log)]
    /\ UNCHANGED <<jobVars, procVars, capVars, logVars, monVars, stopVars,
                   gsVars, rdVars, apVars, storeVars>>

\* log.Mutex.RLock() in ReadNextLine(false) (line 54): granted at once
\* unless a writer is pending; then the caller blocks until that writer's
\* Unlock().
ReadAllLinesRLock(c) ==
    /\ raPc[c] = "rlock"
    /\ IF WriterPending
         THEN /\ raPc' = [raPc EXCEPT ![c] = "rwait"]
              /\ UNCHANGED logMutex
         ELSE /\ raPc' = [raPc EXCEPT ![c] = "locked"]
              /\ logMutex' = [logMutex EXCEPT !.readers = @ + 1]
    /\ UNCHANGED <<jobVars, procVars, capVars, log, monVars, stopVars,
                   gsVars, rdVars, apVars, storeVars, raPos, raLines,
                   raStart>>

\* RLock() returns in a ReadAllLines caller that blocked (line 54): it
\* takes one of the permits that an Unlock() released.
ReadAllLinesRLockReturn(c) ==
    /\ raPc[c] = "rwait"
    /\ logMutex.readerSem > 0
    /\ logMutex' = [logMutex EXCEPT !.readerSem = @ - 1,
                                    !.readers = @ + 1]
    /\ raPc' = [raPc EXCEPT ![c] = "locked"]
    /\ UNCHANGED <<jobVars, procVars, capVars, log, monVars, stopVars,
                   gsVars, rdVars, apVars, storeVars, raPos, raLines,
                   raStart>>

\* Variant of ReadAllLinesDone: the loop ends after the first read.
ReadAllLinesDone_AfterOne(ok) == TRUE

\* Lines 184-186: the loop of ReadAllLines ends when a read fails.
ReadAllLinesDone(ok) == ~ok

\* ReadNextLine(false) returns under the read lock (lines 58, 67-73) and
\* releases it; ReadAllLines keeps the line and calls again, or returns
\* the lines when the read failed (lines 183-189).
ReadAllLinesStep(c) ==
    /\ raPc[c] = "locked"
    /\ LoopBreaks(log, raPos[c], FALSE)
    /\ LET res == ReadResult(log, raPos[c])
       IN /\ raPos' = [raPos EXCEPT ![c] = res.pos]
          /\ raLines' = [raLines EXCEPT ![c] =
                            IF res.ok THEN Append(@, res.line) ELSE @]
          /\ raPc' = [raPc EXCEPT ![c] =
                         IF ReadAllLinesDone(res.ok) THEN "done"
                         ELSE "rlock"]
    /\ logMutex' = [logMutex EXCEPT !.readers = @ - 1]
    /\ UNCHANGED <<jobVars, procVars, capVars, log, monVars, stopVars,
                   gsVars, rdVars, apVars, storeVars, raStart>>

\* =========================== JobStore ===================================
\* cmd/client/main.go, lines 180-210.  The job that registrar p starts is
\* named p.

\* Variant of UuidNew: an identifier already handed out may come again.
UuidNew_MayRepeat(used) == JobIds

\* uuid.New() (line 195): the identifiers it may return, given those it
\* has returned so far; a UUID is never handed out twice.
UuidNew(used) == JobIds \ used

\* The keys of jobStore.jobs.
Registered == {id \in JobIds : jobs[id] # NoEntry}

\* job.StartJob fails and the client's StartJob returns "", err (lines
\* 190-193): nothing is stored.
StoreStartJobFail(p) ==
    /\ regPc[p] = "idle"
    /\ regPc' = [regPc EXCEPT ![p] = "failed"]
    /\ UNCHANGED <<othersVars, jobs, jobsMutex, regId, lkPc, lkId, lkRes>>

\* job.StartJob succeeds and jobsMutex.Lock() is called (lines 190-194).
StoreStartJobCall(p) ==
    /\ regPc[p] = "idle"
    /\ regPc' = [regPc EXCEPT ![p] = "lock"]
    /\ UNCHANGED <<othersVars, jobs, jobsMutex, regId, lkPc, lkId, lkRes>>

\* jobsMutex.Lock() takes the inner mutex, free when no other writer
\* holds it, and announces the writer (line 194): from now on RLock()
\* blocks.
StoreAnnounce(p) ==
    /\ regPc[p] = "lock"
    /\ jobsMutex.writer = None
    /\ jobsMutex' = [jobsMutex EXCEPT !.writer = p]
    /\ regPc' = [regPc EXCEPT ![p] = "announced"]
    /\ UNCHANGED <<othersVars, jobs, regId, lkPc, lkId, lkRes>>

\* jobsMutex.Lock() returns (line 194): the readers have left and no
\* permit released to a blocked reader is outstanding.
StoreLock(p) ==
    /\ regPc[p] = "announced"
    /\ jobsMutex.readers = 0
    /\ jobsMutex.readerSem = 0
    /\ regPc' = [regPc EXCEPT ![p] = "locked"]
    /\ UNCHANGED <<othersVars, jobs, jobsMutex, regId, lkPc, lkId, lkRes>>

\* id := uuid.New().String(); jobStore.jobs[id] = j (lines 195-196).
StorePut(p) ==
    /\ regPc[p] = "locked"
    /\ \E id \in UuidNew(Registered) :
          /\ jobs' = [jobs EXCEPT ![id] = p]
          /\ regId' = [regId EXCEPT ![p] = id]
    /\ regPc' = [regPc EXCEPT ![p] = "stored"]
    /\ UNCHANGED <<othersVars, jobsMutex, lkPc, lkId, lkRes>>

\* The GetJob callers blocked in RLock() (line 202).
BlockedLookups == {l \in DOMAIN lkPc : lkPc[l] = "rwait"}

\* jobsMutex.Unlock(); return id, nil (lines 197-198): one permit is
\* released for every reader blocked in RLock(), before a waiting writer
\* can announce itself.
StoreUnlock(p) ==
    /\ regPc[p] = "stored"
    /\ jobsMutex' = [readers |-> jobsMutex.readers,
                     writer |-> None,
                     readerSem |-> jobsMutex.readerSem
                                     + Cardinality(BlockedLookups)]
    /\ regPc' = [regPc EXCEPT ![p] = "done"]
    /\ UNCHANGED <<othersVars, jobs, regId, lkPc, lkId, lkRes>>

\* GetJob(jobID) is called: it asks for jobsMutex.RLock() (lines 201-202).
GetJobCall(l, id) ==
    /\ lkPc[l] = "idle"
    /\ lkPc' = [lkPc EXCEPT ![l] = "rlock"]
    /\ lkId' = [lkId EXCEPT ![l] = id]
    /\ UNCHANGED <<othersVars, jobs, jobsMutex, regPc, regId, lkRes>>

\* jobsMutex.RLock() (line 202): granted at once unless a writer holds the
\* mutex or is announced; then the caller blocks until that writer's
\* Unlock().
GetJobRLock(l) ==
    /\ lkPc[l] = "rlock"
    /\ IF jobsMutex.writer # None
         THEN /\ lkPc' = [lkPc EXCEPT ![l] = "rwait"]
              /\ UNCHANGED jobsMutex
         ELSE /\ lkPc' = [lkPc EXCEPT ![l] = "locked"]
              /\ jobsMutex' = [jobsMutex EXCEPT !.readers = @ + 1]
    /\ UNCHANGED <<othersVars, jobs, regPc, regId, lkId, lkRes>>

\* RLock() returns in a GetJob caller that blocked (line 202): it takes
\* one of the permits that an Unlock() released.
GetJobRLockReturn(l) ==
    /\ lkPc[l] = "rwait"
    /\ jobsMutex.readerSem > 0
    /\ jobsMutex' = [jobsMutex EXCEPT !.readerSem = @ - 1,
                                      !.readers = @ + 1]
    /\ lkPc' = [lkPc EXCEPT ![l] = "locked"]
    /\ UNCHANGED <<othersVars, jobs, regPc, regId, lkId, lkRes>>

\* Lines 206-210: the job under the key, or nil and the error "job not
\* found".
GetJobResult(store, id) ==
    [job |-> store[id], notFound |-> store[id] = NoEntry]

\* The map is read and GetJob returns; the deferred RUnlock runs (lines
\* 204-210).
GetJob(l) ==
    /\ lkPc[l] = "locked"
    /\ lkRes' = [lkRes EXCEPT ![l] = GetJobResult(jobs, lkId[l])]
    /\ jobsMutex' = [jobsMutex EXCEPT !.readers = @ - 1]
    /\ lkPc' = [lkPc EXCEPT ![l] = "idle"]
    /\ UNCHANGED <<othersVars, jobs, regPc, regId, lkId>>

\* =========================== specification ==============================

\* StartJob, the process and the two goroutines StartJob launches.
NextBackground ==
    \/ StartJobPipeError
    \/ StartJobCreate
    \/ CmdStartOk
    \/ CmdStartFail
    \/ CmdStartFailReturn
    \/ StartJobReturn
    \/ \E stream \in {"stdout", "stderr"} : ProcEmit(stream)
    \/ \E err \in BOOLEAN : ProcExit(err)
    \/ CapCheck
    \/ CapRead
    \/ AppendLineLock
    \/ AppendLine
    \/ MonWait
    \/ MonCloseStdout
    \/ MonCloseStderr
    \/ MonLock
    \/ MonWrite

\* Callers of Stop and GetStatus.
NextControl ==
    \/ \E s \in Stoppers : StopCall(s)
    \/ \E s \in Stoppers : StopLock(s)
    \/ \E s \in Stoppers : StopBody(s)
    \/ \E g \in Getters : GetStatusCall(g)
    \/ \E g \in Getters : GetStatusLock(g)
    \/ \E g \in Getters : GetStatus(g)

\* Cursors over the log.
NextReaders ==
    \/ \E r \in Readers : NewLogReader(r)
    \/ \E r \in Readers, b \in BOOLEAN : ReadNextLineCall(r, b)
    \/ \E r \in Readers : ReadNextLineRLock(r)
    \/ \E r \in Readers : ReadNextLineRLockReturn(r)
    \/ \E r \in Readers : ReadNextLineReturn(r)
    \/ \E r \in Readers : ReadNextLineSleep(r)
    \/ \E r \in Readers : ReadNextLineWake(r)

\* A job that starts and whose process writes to stdout only (the "echo"
\* of the tests), with its two goroutines.
NextProducer ==
    \/ StartJobCreate
    \/ CmdStartOk
    \/ StartJobReturn
    \/ ProcEmit("stdout")
    \/ \E err \in BOOLEAN : ProcExit(err)
    \/ CapCheck
    \/ CapRead
    \/ AppendLineLock
    \/ AppendLine
    \/ MonWait
    \/ MonCloseStdout
    \/ MonCloseStderr
    \/ MonLock
    \/ MonWrite

\* Blocking reads: the cursors of Readers, read by ReadNextLine(true) only.
NextWait ==
    \/ NextProducer
    \/ \E r \in Readers : NewLogReader(r)
    \/ \E r \in Readers : ReadNextLineCall(r, TRUE)
    \/ \E r \in Readers : ReadNextLineRLock(r)
    \/ \E r \in Readers : ReadNextLineRLockReturn(r)
    \/ \E r \in Readers : ReadNextLineReturn(r)
    \/ \E r \in Readers : ReadNextLineSleep(r)
    \/ \E r \in Readers : ReadNextLineWake(r)

\* SubscribeOutput: blocking reads on a stream that may disconnect.
NextSubscribe ==
    \/ NextWait
    \/ \E r \in Readers : Disconnect(r)

\* One log and the tasks of Appenders, which call AppendLine concurrently.
NextAppend ==
    \/ StartJobCreate
    \/ \E a \in Appenders : AppendLineCall(a)
    \/ \E a \in Appenders : AppendLineAnnounce(a)
    \/ \E a \in Appenders : AppendLineAcquire(a)
    \/ \E a \in Appenders : AppendLineRead(a)
    \/ \E a \in Appenders : AppendLineStore(a)
    \/ \E a \in Appenders : AppendLineUnlock(a)

\* ReadAllLines beside the emitting process and its goroutines.
NextCollect ==
    \/ NextProducer
    \/ \E c \in Collectors : ReadAllLinesCall(c)
    \/ \E c \in Collectors : ReadAllLinesRLock(c)
    \/ \E c \in Collectors : ReadAllLinesRLockReturn(c)
    \/ \E c \in Collectors : ReadAllLinesStep(c)

\* The job store: concurrent registrations and lookups.
NextStore ==
    \/ \E p \in Registrars : StoreStartJobFail(p)
    \/ \E p \in Registrars : StoreStartJobCall(p)
    \/ \E p \in Registrars : StoreAnnounce(p)
    \/ \E p \in Registrars : StoreLock(p)
    \/ \E p \in Registrars : StorePut(p)
    \/ \E p \in Registrars : StoreUnlock(p)
    \/ \E l \in Lookups, id \in JobIds : GetJobCall(l, id)
    \/ \E l \in Lookups : GetJobRLock(l)
    \/ \E l \in Lookups : GetJobRLockReturn(l)
    \/ \E l \in Lookups : GetJob(l)

\* Many cursors on one log: the cursors of Followers, each read by
\* ReadNextLine(true) only, as the goroutines of
\* TestConcurrentWriteAndRead and the loop of SubscribeOutput do.
NextCursors ==
    \/ NextProducer
    \/ \E r \in Followers : NewLogReader(r)
    \/ \E r \in Followers : ReadNextLineCall(r, TRUE)
    \/ \E r \in Followers : ReadNextLineRLock(r)
    \/ \E r \in Followers : ReadNextLineRLockReturn(r)
    \/ \E r \in Followers : ReadNextLineReturn(r)
    \/ \E r \in Followers : ReadNextLineSleep(r)
    \/ \E r \in Followers : ReadNextLineWake(r)

\* The log under everything that runs beside it: the emitting process
\* and its background tasks, one caller of Stop and the cursors of
\* Readers, read by ReadNextLine in either mode (ReadAllLines is a
\* cursor read by ReadNextLine(false) until it fails, lines 179-190).
NextLogStop ==
    \/ NextProducer
    \/ StopCall(1)
    \/ StopLock(1)
    \/ StopBody(1)
    \/ NextReaders

\* The job lifecycle: a job whose process writes nothing (the "sleep" of
\* the tests), its goroutines, and callers of Stop and GetStatus; no
\* cursor is attached.
NextJob ==
    \/ StartJobPipeError
    \/ StartJobCreate
    \/ CmdStartOk
    \/ CmdStartFail
    \/ CmdStartFailReturn
    \/ StartJobReturn
    \/ \E err \in BOOLEAN : ProcExit(err)
    \/ CapCheck
    \/ CapRead
    \/ MonWait
    \/ MonCloseStdout
    \/ MonCloseStderr
    \/ MonLock
    \/ MonWrite
    \/ NextControl

\* The same job with a single caller of Stop beside the callers of
\* GetStatus.
NextJobOneStop ==
    \/ StartJobPipeError
    \/ StartJobCreate
    \/ CmdStartOk
    \/ CmdStartFail
    \/ CmdStartFailReturn
    \/ StartJobReturn
    \/ \E err \in BOOLEAN : ProcExit(err)
    \/ CapCheck
    \/ CapRead
    \/ MonWait
    \/ MonCloseStdout
    \/ MonCloseStderr
    \/ MonLock
    \/ MonWrite
    \/ StopCall(1)
    \/ StopLock(1)
    \/ StopBody(1)
    \/ \E g \in Getters : GetStatusCall(g)
    \/ \E g \in Getters : GetStatusLock(g)
    \/ \E g \in Getters : GetStatus(g)

\* The log: a job, its process and its goroutines, observed through
\* cursors; nobody calls Stop or GetStatus.
NextLog == NextBackground \/ NextReaders

Next ==
    \/ NextBackground
    \/ NextControl
    \/ NextReaders
    \/ NextCursors
    \/ \E r \in Cursors : Disconnect(r)
    \/ NextAppend
    \/ NextStore
    \/ NextCollect

Spec == Init /\ [][Next]_vars
SpecJob == Init /\ [][NextJob]_vars
SpecLog == Init /\ [][NextLog]_vars
SpecWait == Init /\ [][NextWait]_vars
SpecCursors == Init /\ [][NextCursors]_vars
SpecSubscribe == Init /\ [][NextSubscribe]_vars
SpecAppend == Init /\ [][NextAppend]_vars
SpecStore == Init /\ [][NextStore]_vars
SpecJobOneStop == Init /\ [][NextJobOneStop]_vars
SpecCollect == Init /\ [][NextCollect]_vars
SpecLogStop == Init /\ [][NextLogStop]_vars

\* Fairness of blocking reads: the Go scheduler runs every runnable
\* goroutine, a sleeping goroutine wakes up, a reader blocked in RLock
\* runs once a permit is there for it, and sync.RWMutex grants a pending
\* Lock once the readers have left.  Nothing obliges a caller to call
\* ReadNextLine, nor the process to write or to exit.
WaitFairness ==
    /\ WF_vars(StartJobReturn)
    /\ WF_vars(CapCheck)
    /\ WF_vars(CapRead)
    /\ WF_vars(AppendLineLock)
    /\ WF_vars(AppendLine)
    /\ WF_vars(MonWait)
    /\ WF_vars(MonCloseStdout)
    /\ WF_vars(MonCloseStderr)
    /\ WF_vars(MonLock)
    /\ WF_vars(MonWrite)
    /\ \A r \in Readers :
          /\ WF_vars(ReadNextLineRLock(r))
          /\ WF_vars(ReadNextLineRLockReturn(r))
          /\ WF_vars(ReadNextLineReturn(r))
          /\ WF_vars(ReadNextLineSleep(r))
          /\ WF_vars(ReadNextLineWake(r))

FairSpecWait == SpecWait /\ WaitFairness
FairSpecSubscribe == SpecSubscribe /\ WaitFairness


\* Fairness of the job lifecycle: the Go scheduler runs every runnable
\* goroutine, and sync.RWMutex hands the lock to a goroutine waiting in
\* Lock even when other goroutines keep taking it (starvation mode), so
\* the monitor's Lock is strongly fair.
FairSpecJob ==
    /\ SpecJob
    /\ WF_vars(StartJobReturn)
    /\ WF_vars(MonWait)
    /\ WF_vars(MonCloseStdout)
    /\ WF_vars(MonCloseStderr)
    /\ SF_vars(MonLock)
    /\ WF_vars(MonWrite)
    /\ \A s \in Stoppers : SF_vars(StopLock(s))
    /\ \A s \in Stoppers : WF_vars(StopBody(s))
    /\ \A g \in Getters : SF_vars(GetStatusLock(g))
    /\ \A g \in Getters : WF_vars(GetStatus(g))

\* The same fairness for the job with a single caller of Stop, whose
\* Lock is granted like the monitor's.
FairSpecJobOneStop ==
    /\ SpecJobOneStop
    /\ WF_vars(StartJobReturn)
    /\ WF_vars(MonWait)
    /\ WF_vars(MonCloseStdout)
    /\ WF_vars(MonCloseStderr)
    /\ SF_vars(MonLock)
    /\ WF_vars(MonWrite)
    /\ SF_vars(StopLock(1))
    /\ WF_vars(StopBody(1))
    /\ \A g \in Getters : SF_vars(GetStatusLock(g))
    /\ \A g \in Getters : WF_vars(GetStatus(g))

\* ReadAllLines under the Go scheduler: its goroutine and the capture
\* goroutine run whenever they can; a reader blocked in RLock runs once a
\* permit is there for it.
FairSpecCollect ==
    /\ SpecCollect
    /\ WF_vars(CapCheck)
    /\ WF_vars(CapRead)
    /\ WF_vars(AppendLineLock)
    /\ WF_vars(AppendLine)
    /\ \A c \in Collectors :
          /\ WF_vars(ReadAllLinesRLock(c))
          /\ WF_vars(ReadAllLinesRLockReturn(c))
          /\ WF_vars(ReadAllLinesStep(c))

\* Many cursors under the Go scheduler: the capture goroutine and every
\* reader run whenever they can take a step.
FairSpecCursors ==
    /\ SpecCursors
    /\ WF_vars(AppendLine)
    /\ \A r \in Followers :
          /\ WF_vars(ReadNextLineRLockReturn(r))
          /\ WF_vars(ReadNextLineReturn(r))
          /\ WF_vars(ReadNextLineSleep(r))

\* StartJob under the Go scheduler: the capture goroutine, launched on
\* line 102, is run whenever it can take a step.
FairSpecStart ==
    /\ SpecJob
    /\ WF_vars(CapCheck)
    /\ WF_vars(CapRead)

\* The job lifecycle with the capture goroutine scheduled too: its RLock
\* of job.Mutex is granted although other goroutines keep taking the
\* mutex.  The process is not obliged to exit, even when signalled.
FairSpecCapture ==
    /\ FairSpecJob
    /\ SF_vars(CapCheck)
    /\ WF_vars(CapRead)

\* =========================== properties =================================

Range(seq) == {seq[i] : i \in 1..Len(seq)}

\* The step in which the Stop call of s runs its body and returns.
StopReturns(s) == stopPc[s] = "locked" /\ stopPc'[s] = "done"
\* The step in which the GetStatus call of g returns.
GetStatusReturns(g) == gsPc[g] = "locked" /\ gsPc'[g] = "idle"
\* The step in which the ReadNextLine call of r returns.
ReadReturns(r) == rdPc[r] = "loop" /\ rdPc'[r] = "idle"

\* C1: once the status is Completed, Failed or Terminated it never changes
\* again; in particular the completion monitor does not overwrite a
\* Terminated set by Stop.
C1_TerminalStatusNeverChanges ==
    [][(status \in Terminal) => (status' = status)]_vars

\* A Stop call returned success and its interrupt reached a live process:
\* the process is still running or exited after the interrupt.
StoppedAlive == SomeStopOk /\ (proc = "exited" => exitAfterSignal)

\* C2: after a Stop returned success, every GetStatus call begun later
\* returns Terminated, and the status after the signalled process has
\* exited and the completion monitor has run is Terminated.  (Stated for
\* the Stop calls that signalled a live process.)
\* (job.Mutex is held from the start of GetStatus to its return, so a Stop
\* that has returned when GetStatus returns had returned when it began.)
C2_StoppedJobStaysTerminated ==
    [][/\ \A g \in Getters :
            (GetStatusReturns(g) /\ StoppedAlive)
               => gsRes'[g] = StatusTerminated
       /\ (StoppedAlive /\ monPc' = "done")
             => (status' = StatusTerminated)]_vars

\* C3: at most one Stop call returns success, and every Stop call that
\* begins after a successful Stop has returned fails with the not-running
\* error.
\* (job.Mutex is held from the start of Stop to its return, so a Stop that
\* has returned when this one returns had returned when this one began.)
C3_AtMostOneStopSucceeds ==
    [][/\ Cardinality({s \in Stoppers : stopRes'[s] = StopOk}) <= 1
       /\ \A s \in Stoppers :
            (StopReturns(s) /\ SomeStopOk)
               => stopRes'[s] = ErrNotRunning]_vars

\* Two Stop calls, one after the other: the first succeeded, the second
\* failed with the not-running error.
C3_Witness ==
    \E s, t \in Stoppers :
        /\ stopRes[s] = StopOk
        /\ stopRes[t] = ErrNotRunning

\* C4: a Stop call that finds the status not Running returns the
\* not-running error, sends no signal, and leaves status and log unchanged.
C4_StopNotRunningChangesNothing ==
    [][\A s \in Stoppers :
          (StopReturns(s) /\ status # StatusRunning)
             => /\ stopRes'[s] = ErrNotRunning
                /\ signals' = signals
                /\ status' = status
                /\ log' = log]_vars

\* Stop was called on a job that had completed by itself, with no signal
\* ever sent.
C4_Witness ==
    \E s \in Stoppers :
        /\ stopRes[s] = ErrNotRunning
        /\ status = StatusCompleted
        /\ signals = 0

\* C5: a Stop call on a Running job whose signal cannot be delivered (the
\* process has already been reaped) returns that error and leaves the
\* status as it was.
C5_SignalErrorLeavesStatus ==
    [][\A s \in Stoppers :
          (StopReturns(s) /\ status = StatusRunning /\ waited)
             => /\ stopRes'[s] = ErrSignal
                /\ status' = status
                /\ signals' = signals]_vars

\* Stop returned the signal error and the job is still Running.
C5_Witness ==
    \E s \in Stoppers :
        /\ stopRes[s] = ErrSignal
        /\ status = StatusRunning
        /\ waited

\* C6 as stated: a Stop called after the process exited on its own returns
\* the not-running error and the status is Completed or Failed, never
\* Terminated.
C6_StopAfterExitIsNotRunning ==
    \A s \in Stoppers :
        (stopRes[s] # NoResult /\ stopCtx[s].exitedNaturally)
           => /\ stopRes[s] = ErrNotRunning
              /\ status \in {StatusCompleted, StatusFailed}

\* C6 amended: a Stop called after the process exited on its own returns
\* the not-running error and leaves the status as it is when, by the time
\* Stop holds the mutex, the status is no longer Running: Completed or
\* Failed written by the completion monitor, or Terminated set by another
\* Stop whose interrupt reached the not yet reaped process; while the
\* status is still Running, Stop returns the signal error and leaves
\* Running if the process has been reaped, and otherwise succeeds and sets
\* Terminated.
C6_StopAfterExitByMonitorProgress ==
    [][\A s \in Stoppers :
          (StopReturns(s) /\ stopCtx[s].exitedNaturally)
             => \/ /\ status \in {StatusCompleted, StatusFailed}
                   /\ monPc = "done"
                   /\ stopRes'[s] = ErrNotRunning
                   /\ status' = status
                \/ /\ status = StatusTerminated
                   /\ SomeStopOk
                   /\ stopRes'[s] = ErrNotRunning
                   /\ status' = status
                \/ /\ status = StatusRunning /\ waited
                   /\ stopRes'[s] = ErrSignal
                   /\ status' = StatusRunning
                \/ /\ status = StatusRunning /\ ~waited
                   /\ stopRes'[s] = StopOk
                   /\ status' = StatusTerminated]_vars

\* The process exited on its own, the monitor recorded it, and then Stop
\* was called and refused.
C6_Witness ==
    \E s \in Stoppers :
        /\ stopCtx[s].exitedNaturally
        /\ stopRes[s] = ErrNotRunning
        /\ status \in {StatusCompleted, StatusFailed}
        /\ signals = 0

\* C7 as stated: the GetStatus call made right after StartJob returned,
\* with no Stop in between, returns Running whatever the monitor has done.
\* (A getter's first call is the one made while it has no result yet.)
C7_FirstGetStatusIsRunning ==
    [][\A g \in Getters :
          (GetStatusReturns(g) /\ gsRes[g] = NoResult /\ ~SomeStopBegun)
             => gsRes'[g] = StatusRunning]_vars

\* C8: if no Stop ever delivers a signal, then from the moment the process
\* has exited the status eventually is, and from then on stays, Completed
\* for a clean exit and Failed for an exit with an error.
C8_ExitIsEventuallyRecorded ==
    [](signals = 0) =>
        /\ (JobReturned /\ proc = "exited" /\ ~exitErr)
              ~> [](status = StatusCompleted)
        /\ (JobReturned /\ proc = "exited" /\ exitErr)
              ~> [](status = StatusFailed)

\* A job that was never signalled has exited cleanly and is Completed.
C8_Witness ==
    /\ proc = "exited"
    /\ ~exitErr
    /\ signals = 0
    /\ monPc = "done"
    /\ status = StatusCompleted

\* The entries of lines that are among the lines of emitted, in log order.
FromStream(lines, emitted) ==
    SelectSeq(lines, LAMBDA x : x \in Range(emitted))

\* C9: once the process has exited 0, the job is Completed and the capture
\* goroutine has finished, the log holds exactly the lines the process
\* emitted, those of each stream in the order of emission.
C9_CompletedLogHasEveryLine ==
    (status = StatusCompleted /\ capPc = "done" /\ proc = "exited"
        /\ ~exitErr)
       => /\ FromStream(log, emittedOut) = emittedOut
          /\ FromStream(log, emittedErr) = emittedErr
          /\ Len(log) = Len(emittedOut) + Len(emittedErr)

\* C10: a ReadNextLine call that returns with the cursor at p over a log of
\* length n returns the entry at index p with ok = true and moves the
\* cursor to p+1 when p < n, blocking or not; a non-blocking call with
\* p = n returns ok = false, leaves the cursor at p, and never sleeps.
C10_ReadNextLineResult ==
    [][\A r \in Readers :
          /\ (ReadReturns(r) /\ rdPos[r] < Len(log))
                => /\ rdRes'[r] = [line |-> log[rdPos[r] + 1], ok |-> TRUE]
                   /\ rdPos'[r] = rdPos[r] + 1
          /\ (ReadReturns(r) /\ rdPos[r] = Len(log) /\ ~rdBlocking[r])
                => /\ rdRes'[r] = [line |-> NoLine, ok |-> FALSE]
                   /\ rdPos'[r] = rdPos[r]
          /\ (rdPc[r] = "loop" /\ ~rdBlocking[r])
                => rdPc'[r] # "sleep"]_vars

\* A cursor has read the first line and a later non-blocking call at the
\* end of a non-empty log returned ok = false.
C10_Witness ==
    \E r \in Readers :
        /\ rdPc[r] = "idle"
        /\ rdPos[r] = Len(log)
        /\ rdPos[r] >= 1
        /\ rdRes[r] = [line |-> NoLine, ok |-> FALSE]


\* The ReadNextLine call of r is in progress and is a blocking one.
BlockingReadInProgress(r) ==
    rdPc[r] \in {"rlock", "rwait", "loop", "sleep"} /\ rdBlocking[r]

\* C11: a blocking ReadNextLine never misses an append: whenever the entry
\* at the cursor's index is in the log while the call is in progress (it
\* may have been appended before, during or after the emptiness check and
\* the sleep), the call eventually returns exactly that entry with
\* ok = true, under fair scheduling.
C11_BlockingReadGetsAppendedLine ==
    \A r \in Readers : \A p \in 0..MaxLines :
        (BlockingReadInProgress(r) /\ rdPos[r] = p /\ Len(log) > p)
           ~> (/\ rdPc[r] = "idle"
               /\ rdPos[r] = p + 1
               /\ rdRes[r] = [line |-> log[p + 1], ok |-> TRUE])

\* A blocking call found the log exhausted and went to sleep, and the line
\* it waits for has been appended in the meantime.
C11_Witness ==
    \E r \in Readers :
        /\ rdPc[r] = "sleep"
        /\ Len(log) = rdPos[r] + 1


\* seq is an initial segment of lines.
IsPrefix(seq, lines) ==
    /\ Len(seq) <= Len(lines)
    /\ \A i \in 1..Len(seq) : seq[i] = lines[i]

\* C12: every cursor, whenever it was created, observes the same sequence:
\* the lines its successful reads returned are, in order, the first
\* entries of the log (the k-th read returned the entry at index k-1), as
\* many as its position says; and a step of ReadNextLine on one cursor
\* leaves the position of every other cursor unchanged.
C12_CursorsReadTheSamePrefix ==
    [][/\ \A c \in Followers :
            /\ IsPrefix(rdSeq'[c], log')
            /\ Len(rdSeq'[c]) = rdPos'[c]
       /\ \A c, d \in Followers :
            (c # d /\ rdPc'[c] # rdPc[c]) => rdPos'[d] = rdPos[d]]_vars

\* Two cursors on the log of a finished job: one has read both lines, the
\* other only the first.
C12_Witness ==
    \E c, d \in Followers :
        /\ Len(rdSeq[c]) = 2
        /\ Len(rdSeq[d]) = 1
        /\ rdSeq[d][1] = rdSeq[c][1]
        /\ status = StatusCompleted


\* C13: the log is append-only: no step makes it shorter, and no step
\* changes an entry already written, whatever AppendLine, ReadNextLine,
\* Stop and the background tasks do.
C13_LogIsAppendOnly ==
    [][/\ Len(log') >= Len(log)
       /\ \A i \in 1..Len(log) : log'[i] = log[i]]_vars

\* A second line has been appended while a reader holds the first one and
\* Stop has ended the job.
C13_Witness ==
    /\ Len(log) = 2
    /\ \E r \in Readers : rdRes[r].ok /\ rdPos[r] = 1
    /\ stopRes[1] = StopOk


\* C14: every cursor's position stays between 0 and the length of the log;
\* it is 0 when the cursor is created, grows by exactly one in a read that
\* returns ok = true, is unchanged by a read that returns ok = false, and
\* nothing else moves it.
C14_CursorPosition ==
    [][\A r \in Readers :
          /\ 0 <= rdPos'[r] /\ rdPos'[r] <= Len(log')
          /\ (rdPc[r] = "nocursor" /\ rdPc'[r] # "nocursor")
                => rdPos'[r] = 0
          /\ (ReadReturns(r) /\ rdRes'[r].ok)
                => rdPos'[r] = rdPos[r] + 1
          /\ (ReadReturns(r) /\ ~rdRes'[r].ok)
                => rdPos'[r] = rdPos[r]
          /\ (~ReadReturns(r) /\ rdPc[r] # "nocursor")
                => rdPos'[r] = rdPos[r]]_vars

\* A cursor has reached the end of a two-line log by successful reads, and
\* a further non-blocking read is about to fail there.
C14_Witness ==
    \E r \in Readers :
        /\ rdPos[r] = 2
        /\ Len(log) = 2
        /\ rdRes[r].ok
        /\ rdPc[r] = "loop"
        /\ ~rdBlocking[r]


\* C15: a blocking read whose stream has been cancelled is released: the
\* call returns, even if no further line is ever appended to the log.
C15_CancelledReadIsReleased ==
    \A r \in Readers :
        (rdCancelled[r] /\ BlockingReadInProgress(r)) ~> rdPc[r] = "idle"


\* C16: a blocking read on a finished job ends: once the status is terminal,
\* the capture task has stopped and the cursor has consumed every line of
\* the log, the call returns ok = false.
C16_BlockingReadEndsOnFinishedJob ==
    \A r \in Readers :
        (/\ BlockingReadInProgress(r)
         /\ status \in Terminal
         /\ capPc = "done"
         /\ rdPos[r] = Len(log))
           ~> (rdPc[r] = "idle" /\ ~rdRes[r].ok)


\* The capture goroutine is inside buf.ReadBytes (line 118) on `stream`,
\* and the call cannot return: no data, and the write end is open.
CapBlockedOn(stream) ==
    /\ capPc = "read"
    /\ capStream = stream
    /\ ReadBytes(IF stream = "stdout" THEN stdoutBuf ELSE stderrBuf,
                 IF stream = "stdout" THEN stdoutPipe ELSE stderrPipe,
                 IF stream = "stdout" THEN stdoutClosed ELSE stderrClosed,
                 WriterGone).kind = "block"

\* A complete line written to `stream` has not been taken by the capture
\* goroutine yet.
LineAvailable(stream) ==
    IF stream = "stdout"
      THEN stdoutBuf # <<>> \/ stdoutPipe # <<>>
      ELSE stderrBuf # <<>> \/ stderrPipe # <<>>

\* C17: neither stream blocks the other: while the job is Running and its
\* process alive, the capture task is never stuck reading one stream that
\* has no data while a complete line is waiting on the other stream (in
\* such a state the line is not appended for as long as the process stays
\* silent on the first stream).
C17_NoStreamBlocksTheOther ==
    \A s \in {"stdout", "stderr"} :
        ~(/\ status = StatusRunning
          /\ proc = "running"
          /\ CapBlockedOn(s)
          /\ LineAvailable(CapNextStream(s)))


\* The indexes of the log that hold `line`.
IndexesOf(line) == {i \in 1..Len(log) : log[i] = line}

\* C18: AppendLine is atomic: after any interleaving of calls made by
\* concurrent tasks the log is as long as the number of appends made,
\* every line appended is in the log exactly once, and the lines of one
\* task are in the order of its calls.
C18_ConcurrentAppendsAreAtomic ==
    /\ Len(log) = Cardinality({<<a, k>> \in Appenders \X (1..MaxAppends) :
                                  k <= apDone[a]})
    /\ \A a \in Appenders : \A k \in 1..apDone[a] :
          Cardinality(IndexesOf(AppenderLine(a, k))) = 1
    /\ \A a \in Appenders : \A k, m \in 1..apDone[a] :
          k < m => \A i \in IndexesOf(AppenderLine(a, k)) :
                      \A j \in IndexesOf(AppenderLine(a, m)) : i < j

\* Contention: the lines of two tasks alternate in the log, one task is
\* inside its second append holding the lock, the other waits in Lock().
C18_Witness ==
    /\ Len(log) = 2
    /\ log[1] = AppenderLine(1, 1)
    /\ log[2] = AppenderLine(2, 1)
    /\ apPc[2] = "read"
    /\ logWriter = 2
    /\ apPc[1] = "lock"


\* C19: when StartJob fails it leaves nothing behind: the completion
\* monitor was never launched, and the capture goroutine either was never
\* launched (a pipe could not be made) or comes to an end.
C19_FailedStartLeavesNoTask ==
    /\ [](startPc = "failed" => monPc = "off")
    /\ (startPc = "failed") ~> (capPc \in {"off", "done"})


\* C20: GetStatus returns the status the job has when it returns, which
\* nothing changes while GetStatus holds job.Mutex; and every call of
\* GetStatus returns, whatever Stop, the monitor and the capture task do.
C20_GetStatusIsCurrentAndReturns ==
    /\ [][\A g \in Getters :
             gsPc[g] = "locked"
                => /\ status' = status
                   /\ GetStatusReturns(g) => gsRes'[g] = status']_vars
    /\ \A g \in Getters : (gsPc[g] = "lock") ~> (gsPc[g] = "idle")

\* A GetStatus call waits for job.Mutex while a Stop call holds it.
C20_Witness ==
    \E g \in Getters : \E s \in Stoppers :
        /\ gsPc[g] = "lock"
        /\ stopPc[s] = "locked"


\* The step in which the GetJob call of l returns.
GetJobReturns(l) == lkPc[l] = "locked" /\ lkPc'[l] = "idle"

\* C21: in the job store, a lookup fails with the not-found error exactly
\* when no job is registered under the identifier, and otherwise returns
\* the job registered under it; once a registration has returned an
\* identifier, the store holds that registrar's job under it and keeps
\* holding it: no entry is removed or overwritten.
C21_StoreLookupAndPermanence ==
    [][/\ \A l \in Lookups :
            GetJobReturns(l)
               => /\ lkRes'[l].notFound <=> (lkId[l] \notin Registered)
                  /\ (lkId[l] \in Registered)
                        => lkRes'[l].job = jobs[lkId[l]]
       /\ \A p \in Registrars :
            regPc'[p] = "done"
               => /\ regId'[p] \in JobIds
                  /\ jobs'[regId'[p]] = p
       /\ \A id \in Registered : jobs'[id] = jobs[id]]_vars

\* Both registrations have returned, a lookup of a registered identifier
\* has returned its job, and the next lookup asks for an unknown one.
C21_Witness ==
    /\ \A p \in Registrars : regPc[p] = "done"
    /\ \E l \in Lookups :
          /\ lkRes[l].job \in Registrars
          /\ ~lkRes[l].notFound
          /\ lkPc[l] = "locked"
          /\ lkId[l] \notin Registered


C23_CaptureStopsAfterTerminal ==
    /\ (status \in Terminal) ~> (capPc = "done")
    /\ [][(capPc = "done") => (capPc' = "done" /\ log' = log)]_vars


\* C24: a ReadNextLine(true) call never returns ok = false: whenever it
\* returns it returns an entry of the log with ok = true.
C24_BlockingReadNeverFails ==
    [][\A r \in Readers :
          (ReadReturns(r) /\ rdBlocking[r])
             => /\ rdRes'[r].ok
                /\ rdRes'[r].line \in Range(log)]_vars

\* A cursor that has read the first line is in a second blocking call,
\* holds the read lock and is about to return the second line.
C24_Witness ==
    \E r \in Readers :
        /\ rdPc[r] = "loop"
        /\ rdBlocking[r]
        /\ rdRes[r].ok
        /\ rdPos[r] = 1
        /\ Len(log) = 2


\* C25: readers do not starve the writer: the read lock of the log is held
\* exactly by the readers that are between RLock and RUnlock, so none is
\* held by a reader that sleeps or has returned; and an AppendLine call
\* that waits for the lock gets it and completes, however many readers are
\* in blocking calls.
C25_ReadersNeverStarveAppend ==
    /\ [](logMutex.readers
             = Cardinality({r \in Followers : rdPc[r] = "loop"}))
    /\ (capPc = "lock") ~> (capPc # "lock")

\* AppendLine waits in Lock() while one reader holds the read lock and
\* another, sleeping in a blocking call, holds none.
C25_Witness ==
    /\ capPc = "lock"
    /\ \E r, q \in Followers :
          /\ rdPc[r] = "loop"
          /\ rdPc[q] = "sleep"
          /\ logMutex.readers = 1

=============================================================================
